---- MODULE Spec2Model ----
(***************************************************************************)
(* A model of ISMCTS.py: the interval-valued information-set MCTS tree     *)
(* (ActionNode, SamplingNode, Tree) and the static function                *)
(* SamplingNode.Phi.                                                       *)
(*                                                                         *)
(* Numbers.  numpy floats are modelled by exact rationals <<num, den>>     *)
(* (den > 0, lowest terms).  The only irrational quantity of the program,  *)
(* sqrt(sum(N)) in computePUCT, is kept symbolic: a PUCT score is a pair   *)
(* [r, s] standing for r + s * sqrt(S) and scores are compared exactly.    *)
(* Arrays are functions over 0..n-1, as numpy indexes them.                *)
(*                                                                         *)
(* Exceptions.  A Python exception ends the running call chain and leaves  *)
(* every assignment made before it in place; a call's result carries the   *)
(* exception's name in its err field ("none" when the call returned).      *)
(***************************************************************************)
EXTENDS Integers, Sequences, FiniteSets, TLC

VARIABLES world, nodes, evalCalls, last, phiIn, phiOut

vars == <<world, nodes, evalCalls, last, phiIn, phiOut>>

\* ---------------------------------------------------------------- bounds
MaxSims == 4        \* direct root visits per tree
MaxDepth == 2       \* the game ends at this depth at the latest
MaxActions == 3     \* legal actions at a decision node
MaxHidden == 3      \* hidden values at a sampling node

\* ------------------------------------------------------ program constants
NUM_PLAYERS == 2
c_PUCT == <<1, 1>>
PHI_EPS == <<1, 20>>

None == <<>>

\* ---------------------------------------------------------------- rationals
Abs(n) == IF n < 0 THEN -n ELSE n

RECURSIVE GCD(_, _)
GCD(a, b) == IF b = 0 THEN a ELSE GCD(b, a % b)

RNorm(n, d) ==
    LET g == GCD(Abs(n), d)
    IN  IF n = 0 THEN <<0, 1>> ELSE <<n \div g, d \div g>>

Zero == <<0, 1>>
One == <<1, 1>>
RInt(n) == <<n, 1>>
RNeg(x) == <<-x[1], x[2]>>

RAdd(x, y) ==
    LET g == GCD(x[2], y[2])
    IN  RNorm(x[1] * (y[2] \div g) + y[1] * (x[2] \div g), (x[2] \div g) * y[2])

RSub(x, y) == RAdd(x, RNeg(y))

RMul(x, y) ==
    LET g1 == GCD(Abs(x[1]), y[2])
        g2 == GCD(Abs(y[1]), x[2])
    IN  IF x[1] = 0 \/ y[1] = 0 THEN Zero
        ELSE <<(x[1] \div g1) * (y[1] \div g2), (x[2] \div g2) * (y[2] \div g1)>>

RInv(y) == IF y[1] < 0 THEN <<-y[2], -y[1]>> ELSE <<y[2], y[1]>>

\* x / y for y # 0
RDiv(x, y) == RMul(x, RInv(y))

RLt(x, y) ==
    LET g == GCD(x[2], y[2])
    IN  x[1] * (y[2] \div g) < y[1] * (x[2] \div g)

RLeq(x, y) == ~RLt(y, x)

RMin(x, y) == IF RLt(y, x) THEN y ELSE x

\* sum of the rationals f[i], i in S
RECURSIVE RSum(_, _)
RSum(f, S) ==
    IF S = {} THEN Zero
    ELSE LET i == CHOOSE j \in S : TRUE
         IN  RAdd(f[i], RSum(f, S \ {i}))

\* r + s * sqrt(S) >= 0, decided exactly (S a natural number)
SqrtNonNeg(r, s, S) ==
    LET r2 == RMul(r, r)
        s2S == RMul(RMul(s, s), RInt(S))
    IN  IF S = 0 \/ s[1] = 0 THEN r[1] >= 0
        ELSE IF r[1] >= 0 /\ s[1] > 0 THEN TRUE
        ELSE IF r[1] < 0 /\ s[1] < 0 THEN FALSE
        ELSE IF r[1] >= 0 THEN RLeq(s2S, r2)
        ELSE RLeq(r2, s2S)

\* ------------------------------------------------------------------ arrays
Players == 0 .. (NUM_PLAYERS - 1)
Bounds == 0 .. 1

Half == <<1, 2>>

\* an array of NUM_PLAYERS entries
Arr2(x, y) == [p \in Players |-> IF p = 0 THEN x ELSE y]

\* np.zeros(n)
Zeros(n) == [i \in 0 .. (n - 1) |-> Zero]

\* a ValueArray (ndim 1) and an IntervalArray (ndim 2) as numpy arrays
ValueArray(v0, v1) == [ndim |-> 1, a |-> Arr2(v0, v1)]
IntervalArray(l0, u0, l1, u1) == [ndim |-> 2, a |-> Arr2(Arr2(l0, u0), Arr2(l1, u1))]

DUMMY_INTERVAL_ARRAY == IntervalArray(Zero, Zero, Zero, Zero)

\* to_interval_array: a ValueArray is stacked into [v, v] per player, an
\* IntervalArray is copied.  The result is the (NUM_PLAYERS, 2) table itself.
to_interval_array(i) ==
    IF i.ndim = 1 THEN [p \in Players |-> [b \in Bounds |-> i.a[p]]]
    ELSE i.a

\* ------------------------------------------------- the external collaborators
\* A world fixes the game (InfoSet) and the evaluator (Model): both are pure
\* functions of the information set, which is identified by the path of
\* actions / hidden values leading to it.
Kinds == {"T", "A", "S"}    \* terminal, decision, hidden information
OutSchemes == {"tie", "first", "last"}
SeedSchemes == {"zero", "wide", "ranked"}
PriorSchemes == {"uniform", "skew"}
BeliefSchemes == {"uniform", "tiny", "point"}
MaskSchemes == {"all", "notlast", "onlyfirst"}
\* evaluators breaking their contract: a node value, or the child seeds, with
\* lower > upper
MalformedSchemes == {"badvalue", "badseed"}

Worlds ==
    [kinds : UNION {[0 .. (k - 1) -> Kinds] : k \in 1 .. MaxActions},
     out : OutSchemes, seed : SeedSchemes, prior : PriorSchemes,
     belief : BeliefSchemes, mask : MaskSchemes]

MalformedWorlds ==
    [kinds : UNION {[0 .. (k - 1) -> Kinds] : k \in 1 .. MaxActions},
     out : OutSchemes, seed : MalformedSchemes, prior : PriorSchemes,
     belief : BeliefSchemes, mask : MaskSchemes]

NumActions(w) == Cardinality(DOMAIN w.kinds)

Parent(path) == SubSeq(path, 1, Len(path) - 1)
LastOf(path) == path[Len(path)]

RECURSIVE KindAt(_, _)
KindAt(w, path) ==
    IF path = <<>> THEN "A"
    ELSE IF Len(path) >= MaxDepth THEN "T"
    ELSE IF KindAt(w, Parent(path)) = "S" THEN "A"
    ELSE w.kinds[LastOf(path)]

\* InfoSet.get_current_player: players alternate; revealing a hidden value
\* does not change the player to move
RECURSIVE CpAt(_, _)
CpAt(w, path) ==
    IF path = <<>> THEN 0
    ELSE IF KindAt(w, Parent(path)) = "S" THEN CpAt(w, Parent(path))
    ELSE 1 - CpAt(w, Parent(path))

\* InfoSet.get_game_outcome
OutcomeAt(w, path) ==
    LET win0 == ValueArray(One, RInt(-1))
        win1 == ValueArray(RInt(-1), One)
        i == LastOf(path)
    IN  IF KindAt(w, path) # "T" THEN None
        ELSE IF w.out = "tie" THEN win0
        ELSE IF w.out = "first" THEN (IF i = 0 THEN win0 ELSE win1)
        ELSE (IF i = 0 THEN win1 ELSE win0)

\* InfoSet.get_H_mask (at least one hidden value is legal)
MaskAt(w, path) ==
    IF KindAt(w, path) # "S" THEN None
    ELSE [h \in 0 .. (MaxHidden - 1) |->
            IF w.mask = "all" THEN TRUE
            ELSE IF w.mask = "notlast" THEN h < MaxHidden - 1
            ELSE h = 0]

\* InfoSet.get_actions
ActionsAt(w, path) ==
    IF KindAt(w, path) = "A" THEN [i \in 0 .. (NumActions(w) - 1) |-> i]
    ELSE [i \in {} |-> i]

\* the information set reached by `path`
InfoAt(w, path) ==
    [path |-> path,
     cp |-> CpAt(w, path),
     outcome |-> OutcomeAt(w, path),
     hidden |-> KindAt(w, path) = "S",
     actions |-> ActionsAt(w, path),
     H_mask |-> MaskAt(w, path)]

\* InfoSet.apply / InfoSet.instantiate_hidden_state
Apply(w, info, a) == InfoAt(w, Append(info.path, a))
InstantiateHiddenState(w, info, h) == InfoAt(w, Append(info.path, h))

\* the evaluator's value estimate and its seed for child i
ValueOf(w) ==
    IF w.seed = "badvalue" THEN IntervalArray(One, RInt(-1), One, RInt(-1))
    ELSE IF w.seed = "wide" THEN IntervalArray(RInt(-1), One, RInt(-1), One)
    ELSE IF w.seed = "ranked" THEN ValueArray(<<1, 4>>, <<-1, 4>>)
    ELSE ValueArray(Zero, Zero)

SeedOf(w, i) ==
    IF w.seed = "badseed" THEN IntervalArray(Half, RNeg(Half), Half, RNeg(Half))
    ELSE IF w.seed = "wide" THEN IntervalArray(RInt(-1), One, RInt(-1), One)
    ELSE IF w.seed = "ranked"
         THEN (IF i = 0 THEN ValueArray(Half, RNeg(Half)) ELSE ValueArray(RNeg(Half), Half))
    ELSE ValueArray(Zero, Zero)

\* the prior over k actions: uniform, or proportional to a + 1
PriorOf(w, k) ==
    [a \in 0 .. (k - 1) |->
        IF w.prior = "uniform" THEN RNorm(1, k)
        ELSE RNorm(2 * (a + 1), k * (k + 1))]

\* the belief over the MaxHidden hidden values: uniform; all but a mass
\* below 1e-6 on the last value; everything on the last value
TinyUnit == 8 * 1000000
BeliefOf(w) ==
    LET n == MaxHidden
        small == (n * (n - 1)) \div 2
    IN  [h \in 0 .. (n - 1) |->
            IF w.belief = "uniform" THEN RNorm(1, n)
            ELSE IF w.belief = "tiny"
                 THEN (IF h < n - 1 THEN RNorm(h + 1, TinyUnit)
                       ELSE RNorm(TinyUnit - small, TinyUnit))
            ELSE (IF h = n - 1 THEN One ELSE Zero)]

\* Model.action_eval and Model.hidden_eval: (P or H, V, Vc)
action_eval(w, info) ==
    LET k == Cardinality(DOMAIN info.actions)
    IN  [P |-> PriorOf(w, k), V |-> ValueOf(w), Vc |-> [a \in 0 .. (k - 1) |-> SeedOf(w, a)]]

hidden_eval(w, info) ==
    [H |-> BeliefOf(w), V |-> ValueOf(w),
     Vc |-> [h \in 0 .. (MaxHidden - 1) |-> SeedOf(w, h)]]

\* ------------------------------------------------------------------- nodes
\* `nodes` maps the path of every constructed node to its fields; a node's
\* children dict is the sequence of its keys in insertion order, the child
\* under key a of the node at `path` being nodes[Append(path, a)].

\* Node.terminal
terminal(n) == n.game_outcome # None

\* ActionNodeQ without lines 97-98: a terminal node keeps its parent's seed
ActionNodeQ_NoOverride(info, initQ) == to_interval_array(initQ)

\* the Q a decision node holds after construction
ActionNodeQ(info, initQ) ==
    IF info.outcome # None THEN to_interval_array(info.outcome)
    ELSE to_interval_array(initQ)

\* ActionNode.__init__
ActionNodeInit(info, initQ) ==
    LET k == Cardinality(DOMAIN info.actions)
    IN  [kind |-> "action", info_set |-> info, cp |-> info.cp,
         game_outcome |-> info.outcome, Q |-> ActionNodeQ(info, initQ), N |-> 0,
         actions |-> info.actions, children |-> <<>>, num_actions |-> k,
         P |-> None, V |-> None, Vc |-> None,
         PURE |-> Zeros(k), MIXED |-> Zeros(k), n_mixed |-> 0, n_pure |-> 0]

\* SamplingNode.__init__ (the information sets of the worlds have a legal
\* hidden value, so the constructor's assertion holds)
SamplingNodeInit(info, initQ) ==
    [kind |-> "sampling", info_set |-> info, cp |-> info.cp,
     game_outcome |-> info.outcome, Q |-> to_interval_array(initQ), N |-> 0,
     H |-> None, V |-> None, Vc |-> None, Qc |-> None,
     H_mask |-> info.H_mask, children |-> <<>>]

\* the keys of S in ascending order
RECURSIVE Ascending(_)
Ascending(S) ==
    IF S = {} THEN <<>>
    ELSE LET m == CHOOSE x \in S : \A y \in S : x <= y
         IN  <<m>> \o Ascending(S \ {m})

\* one more call of evaluator operation `op` on the information set at `path`
Called(ev, op, path) ==
    LET key == <<op, path>>
    IN  [q \in DOMAIN ev \cup {key} |->
            IF q = key THEN (IF key \in DOMAIN ev THEN ev[key] + 1 ELSE 1) ELSE ev[q]]

Calls(ev, op, path) == IF <<op, path>> \in DOMAIN ev THEN ev[<<op, path>>] ELSE 0

\* the state a call works on, and what a call leaves behind
\* (`reached` lists the nodes whose visit has been called, in call order)
Result(ns, ev, draws, reached, err) ==
    [nodes |-> ns, evals |-> ev, draws |-> draws, reached |-> reached, err |-> err]

\* ActionNode.expand
ActionExpand(w, st, path) ==
    LET n == st.nodes[path]
        r == action_eval(w, n.info_set)
        keys == {n.actions[i] : i \in DOMAIN n.actions}
        childOf(a) ==
            LET info == Apply(w, n.info_set, a)
            IN  IF n.cp # info.cp /\ info.hidden
                THEN SamplingNodeInit(info, r.Vc[a])
                ELSE ActionNodeInit(info, r.Vc[a])
        n1 == [n EXCEPT !.P = r.P, !.V = r.V, !.Vc = r.Vc,
                        !.Q = to_interval_array(r.V),
                        !.children = [i \in 1 .. n.num_actions |-> n.actions[i - 1]]]
        new == {Append(path, a) : a \in keys}
    IN  Result([q \in DOMAIN st.nodes \cup new |->
                    IF q = path THEN n1
                    ELSE IF q \in new THEN childOf(LastOf(q))
                    ELSE st.nodes[q]],
               Called(st.evals, "action_eval", path), st.draws, st.reached, "none")

\* apply_H_mask falling back to uniform only when the masked mass is exactly 0
apply_H_mask_NoThreshold(H, H_mask) ==
    LET masked == [i \in DOMAIN H |-> IF H_mask[i] THEN H[i] ELSE Zero]
        H_sum == RSum(masked, DOMAIN H)
        legal == Cardinality({i \in DOMAIN H_mask : H_mask[i]})
    IN  IF RLeq(H_sum, Zero)
        THEN [i \in DOMAIN H_mask |-> IF H_mask[i] THEN RNorm(1, legal) ELSE Zero]
        ELSE [i \in DOMAIN H |-> RDiv(masked[i], H_sum)]

\* SamplingNode.apply_H_mask
apply_H_mask(H, H_mask) ==
    LET masked == [i \in DOMAIN H |-> IF H_mask[i] THEN H[i] ELSE Zero]
        H_sum == RSum(masked, DOMAIN H)
        legal == Cardinality({i \in DOMAIN H_mask : H_mask[i]})
    IN  IF RLt(H_sum, <<1, 1000000>>)
        THEN [i \in DOMAIN H_mask |-> IF H_mask[i] THEN RNorm(1, legal) ELSE Zero]
        ELSE [i \in DOMAIN H |-> RDiv(masked[i], H_sum)]

\* SamplingNode.expand
SamplingExpand(w, st, path) ==
    LET n == st.nodes[path]
        r == hidden_eval(w, n.info_set)
        H == apply_H_mask(r.H, n.H_mask)
        keys == {h \in DOMAIN n.H_mask : n.H_mask[h]}
        childOf(h) ==
            LET info == InstantiateHiddenState(w, n.info_set, h)
            IN  IF info.hidden THEN SamplingNodeInit(info, r.Vc[h])
                ELSE ActionNodeInit(info, r.Vc[h])
        Qc == [h \in DOMAIN H |->
                 IF h \in keys THEN childOf(h).Q ELSE to_interval_array(DUMMY_INTERVAL_ARRAY)]
        n1 == [n EXCEPT !.H = H, !.V = r.V, !.Vc = r.Vc, !.Qc = Qc,
                        !.children = Ascending(keys), !.Q = to_interval_array(r.V)]
        new == {Append(path, h) : h \in keys}
    IN  Result([q \in DOMAIN st.nodes \cup new |->
                    IF q = path THEN n1
                    ELSE IF q \in new THEN childOf(LastOf(q))
                    ELSE st.nodes[q]],
               Called(st.evals, "hidden_eval", path), st.draws, st.reached, "none")

\* --------------------------------------------------------------- selection
\* a PUCT score r + s * sqrt(S), S the children's total visit count
ScoreGeq(x, y, S) == SqrtNonNeg(RSub(x.r, y.r), RSub(x.s, y.s), S)

\* numpy's A + B for A of shape (c, 2) and B of shape (m,): the trailing
\* axes are aligned, so B runs along the two bounds; the shapes are
\* compatible only when m is 1 or 2
BroadcastAdd(A, c, B, m) ==
    IF m = 1 THEN [err |-> "none",
                   val |-> [i \in 0 .. (c - 1) |-> [b \in Bounds |-> [r |-> A[i][b], s |-> B[0]]]]]
    ELSE IF m = 2 THEN [err |-> "none",
                   val |-> [i \in 0 .. (c - 1) |-> [b \in Bounds |-> [r |-> A[i][b], s |-> B[b]]]]]
    ELSE [err |-> "ValueError", val |-> None]

\* line 136: PUCT = Q[:, cp] + c_PUCT * P * np.sqrt(np.sum(N)) / (N + 1)
PUCTScores(Q, cp, P, N) ==
    LET c == Cardinality(DOMAIN Q)
        m == Cardinality(DOMAIN P)
        bonus == [j \in DOMAIN P |-> RDiv(RMul(c_PUCT, P[j]), RInt(N[j] + 1))]
    IN  BroadcastAdd([i \in DOMAIN Q |-> Q[i][cp]], c, bonus, m)

\* np.argmax: the first index of a maximal entry
ArgMaxLower(PUCT, c, S) ==
    CHOOSE i \in 0 .. (c - 1) :
        /\ \A j \in 0 .. (c - 1) : ScoreGeq(PUCT[i][0], PUCT[j][0], S)
        /\ \A j \in 0 .. (i - 1) : ~ScoreGeq(PUCT[j][0], PUCT[i][0], S)

\* ActionNode.computePUCT: the children's Q table and the ascending indices
\* of the candidate actions
computePUCT(ns, path) ==
    LET n == ns[path]
        cp == n.info_set.cp
        c == Len(n.children)
        child(i) == ns[Append(path, n.children[i + 1])]
        Q == [i \in 0 .. (c - 1) |-> child(i).Q]
        N == [i \in 0 .. (c - 1) |-> child(i).N]
        S == LET RECURSIVE Sum(_)
                 Sum(i) == IF i < 0 THEN 0 ELSE N[i] + Sum(i - 1)
             IN  Sum(c - 1)
        scores == PUCTScores(Q, cp, n.P, N)
        PUCT == scores.val
        max_lower_bound == PUCT[ArgMaxLower(PUCT, c, S)][0]
        selected == {i \in 0 .. (c - 1) : ScoreGeq(PUCT[i][1], max_lower_bound, S)}
    IN  IF scores.err # "none"
        THEN [err |-> scores.err, Q |-> Q, selected_action_indices |-> <<>>]
        ELSE [err |-> "none", Q |-> Q, selected_action_indices |-> Ascending(selected)]

\* ActionNode.get_mixing_distribution.  The function assigns to P (line
\* 147), so P is a local of it throughout, and line 145 reads that local
\* before any assignment: every call raises UnboundLocalError.
Unbound == "unbound"
get_mixing_distribution(selfP, action_indices) ==
    LET local_P == Unbound
        picked == {action_indices[i] : i \in DOMAIN action_indices}
        P == [i \in DOMAIN selfP |-> IF i \in picked THEN selfP[i] ELSE Zero]
        s == RSum(P, DOMAIN P)
    IN  IF local_P = Unbound THEN [err |-> "UnboundLocalError", val |-> None]
        ELSE IF ~RLt(Zero, s) THEN [err |-> "AssertionError", val |-> None]
        ELSE [err |-> "none", val |-> [i \in DOMAIN P |-> RDiv(P[i], s)]]

\* lines 167-169: the running average of PURE after its n_pure-th sample
FoldPure(PURE, n_pure, action_index) ==
    [i \in DOMAIN PURE |->
        RDiv(RAdd(RMul(PURE[i], RInt(n_pure - 1)), IF i = action_index THEN One ELSE Zero),
             RInt(n_pure))]

\* line 174: the running average of MIXED after its n_mixed-th sample
FoldMixed(MIXED, n_mixed, mixing_distr) ==
    [i \in DOMAIN MIXED |->
        RDiv(RAdd(RMul(MIXED[i], RInt(n_mixed - 1)), mixing_distr[i]), RInt(n_mixed))]

\* Backup with the pure term subtracted instead of added
Backup_SignSlip(Qc, PURE, MIXED, n_pure, n_mixed) ==
    [p \in Players |-> [b \in Bounds |->
        LET E_mixed == RSum([i \in DOMAIN Qc |-> RMul(Qc[i][p][b], MIXED[i])], DOMAIN Qc)
            E_pure == RSum([i \in DOMAIN Qc |-> RMul(Qc[i][p][b], PURE[i])], DOMAIN Qc)
        IN  RDiv(RSub(RMul(RInt(n_mixed), E_mixed), RMul(RInt(n_pure), E_pure)),
                 RInt(n_mixed + n_pure))]]

\* lines 176-179: the blend of the two running distributions over Qc
Backup(Qc, PURE, MIXED, n_pure, n_mixed) ==
    [p \in Players |-> [b \in Bounds |->
        LET E_mixed == RSum([i \in DOMAIN Qc |-> RMul(Qc[i][p][b], MIXED[i])], DOMAIN Qc)
            E_pure == RSum([i \in DOMAIN Qc |-> RMul(Qc[i][p][b], PURE[i])], DOMAIN Qc)
        IN  RDiv(RAdd(RMul(RInt(n_mixed), E_mixed), RMul(RInt(n_pure), E_pure)),
                 RInt(n_mixed + n_pure))]]

\* np.random.choice(len(p), p = p): any index of positive probability
Choices(p) == {i \in DOMAIN p : RLt(Zero, p[i])}

\* ------------------------------------------------------------------- Phi
\* np.zeros(shape, dtype): line 233 passes the 2 of the intended shape
\* (NUM_PLAYERS, 2) as the dtype (written "2" here), which numpy rejects
NpZeros(shape, dtype) ==
    IF dtype \in {"float", "int", "bool"}
    THEN [err |-> "none", val |-> Zeros(shape)]
    ELSE [err |-> "TypeError", val |-> None]

\* np.argsort of a short array: ascending, equal entries in index order
RECURSIVE ArgSort(_, _)
ArgSort(x, S) ==
    IF S = {} THEN <<>>
    ELSE LET m == CHOOSE i \in S :
                    \A j \in S : RLt(x[i], x[j]) \/ (x[i] = x[j] /\ i <= j)
         IN  <<m>> \o ArgSort(x, S \ {m})

Reversed(seq) == [k \in 1 .. Len(seq) |-> seq[Len(seq) + 1 - k]]

\* lines 245-250: one sweep over `order`, moving at most eps_limit[i] of the
\* remaining budget at each index, until the budget is used up
RECURSIVE Sweep(_, _, _, _, _, _)
Sweep(H_prime, eps_limit, order, k, remaining_eps, sign) ==
    IF k > Len(order) THEN H_prime
    ELSE LET i == order[k]
             eps_to_use == RMin(remaining_eps, eps_limit[i])
             H1 == [H_prime EXCEPT ![i] = RAdd(@, RMul(RInt(sign), eps_to_use))]
             rest == RSub(remaining_eps, eps_to_use)
         IN  IF RLeq(rest, Zero) THEN H1
             ELSE Sweep(H1, eps_limit, order, k + 1, rest, sign)

\* lines 236-250: the perturbed belief for bound `index` of player p
PhiHPrime(c, eps, Q, H, p, index) ==
    LET index_sign == 1 - 2 * index
        phi_partial_extreme ==
            [i \in DOMAIN H |-> IF i = c THEN RNeg(Q[c][p][index]) ELSE RNeg(Q[i][p][1 - index])]
        index_ordering == ArgSort(phi_partial_extreme, DOMAIN H)
        limit(Hp, direction) ==
            IF direction = index_sign THEN [i \in DOMAIN Hp |-> RSub(One, Hp[i])] ELSE Hp
        down == Sweep(H, limit(H, -1), Reversed(index_ordering), 1, eps, index_sign * (-1))
    IN  Sweep(down, limit(down, 1), index_ordering, 1, eps, index_sign)

\* np.isclose(x, 1): |x - 1| <= 1e-8 + 1e-5
IsCloseToOne(x) ==
    LET d == RSub(x, One)
    IN  RLeq(IF d[1] < 0 THEN RNeg(d) ELSE d, <<1001, 100000000>>)

\* lines 254-256: np.dot(one_c - H_prime, q)
PhiValue(c, Q, H_prime, p, index) ==
    LET q == [i \in DOMAIN H_prime |-> IF i = c THEN Q[c][p][index] ELSE Q[i][p][1 - index]]
    IN  RSum([i \in DOMAIN H_prime |->
                RMul(RSub(IF i = c THEN One ELSE Zero, H_prime[i]), q[i])], DOMAIN H_prime)

\* SamplingNode.Phi
Phi(c, eps, Q, H) ==
    LET output == NpZeros(NUM_PLAYERS, "2")
        Hp(p, index) == PhiHPrime(c, eps, Q, H, p, index)
        sums == \A p \in Players, index \in Bounds :
                    IsCloseToOne(RSum(Hp(p, index), DOMAIN H))
    IN  IF output.err # "none" THEN [err |-> output.err, val |-> None]
        ELSE IF ~sums THEN [err |-> "AssertionError", val |-> None]
        ELSE [err |-> "none",
              val |-> [p \in Players |-> [index \in Bounds |->
                          PhiValue(c, Q, Hp(p, index), p, index)]]]

\* ------------------------------------------------------------------ visits
RECURSIVE NodeVisit(_, _, _)

\* the expansion test of line 159 dropped: every visit expands
unexpanded_Always(n) == TRUE

\* line 159: the decision node has not been expanded yet
unexpanded(n) == n.P = None

\* the count moved below the terminal return of lines 156-157
Visited_AfterTerminalReturn(n) == IF terminal(n) THEN n ELSE [n EXCEPT !.N = @ + 1]

\* lines 154 and 287: self.N += 1, the first statement of both visit methods
Visited(n) == [n EXCEPT !.N = @ + 1]

\* ActionNode.visit on the node at `path`: the set of results its random
\* choices allow
ActionVisit(w, st, path) ==
    LET n0 == st.nodes[path]
        n1 == Visited(n0)
        ns1 == [st.nodes EXCEPT ![path] = n1]
        st1 == [st EXCEPT !.nodes = ns1]
        sel == computePUCT(ns1, path)
        Qc == sel.Q
        action_indices == sel.selected_action_indices
        \* pure case
        pure_index == action_indices[1]
        nP == [n1 EXCEPT !.n_pure = @ + 1,
                         !.PURE = FoldPure(n1.PURE, n1.n_pure + 1, pure_index)]
        \* mixed case
        nM0 == [n1 EXCEPT !.n_mixed = @ + 1]
        mixing == get_mixing_distribution(n1.P, action_indices)
        nM == [nM0 EXCEPT !.MIXED = FoldMixed(n1.MIXED, nM0.n_mixed, mixing.val)]
        \* backup, then the recursive visit of the chosen child
        descend(n2, action_index) ==
            LET n3 == [n2 EXCEPT !.Q = Backup(Qc, n2.PURE, n2.MIXED, n2.n_pure, n2.n_mixed)]
                action == n3.actions[action_index]
            IN  NodeVisit(w, [st EXCEPT !.nodes = [ns1 EXCEPT ![path] = n3]],
                          Append(path, action))
    IN  IF terminal(n1) THEN {Result(ns1, st.evals, st.draws, st.reached, "none")}
        ELSE IF unexpanded(n1) THEN {ActionExpand(w, st1, path)}
        ELSE IF sel.err # "none" THEN {Result(ns1, st.evals, st.draws, st.reached, sel.err)}
        ELSE IF Len(action_indices) = 1 THEN descend(nP, pure_index)
        ELSE IF mixing.err # "none"
             THEN {Result([ns1 EXCEPT ![path] = nM0], st.evals, st.draws, st.reached, mixing.err)}
        ELSE UNION {descend(nM, action_index) : action_index \in Choices(mixing.val)}

\* SamplingNode.visit on the node at `path`
SamplingVisit(w, st, path) ==
    LET n0 == st.nodes[path]
        st1 == [st EXCEPT !.nodes = [@ EXCEPT ![path] = Visited(n0)]]
        st2 == IF n0.H = None THEN SamplingExpand(w, st1, path) ELSE st1
        n2 == st2.nodes[path]
        drawn(c) == [st2 EXCEPT !.draws = Append(@, [path |-> path, c |-> c])]
        phi(c) == Phi(c, PHI_EPS, n2.Qc, n2.H)
    IN  UNION {IF phi(c).err # "none"
               THEN {[drawn(c) EXCEPT !.err = phi(c).err]}
               ELSE IF c \notin {n2.children[i] : i \in DOMAIN n2.children}
               THEN {[drawn(c) EXCEPT !.err = "KeyError"]}
               ELSE NodeVisit(w, drawn(c), Append(path, c)) : c \in Choices(n2.H)}

\* node.visit(model), dispatched on the node's class
NodeVisit(w, st, path) ==
    LET entered == [st EXCEPT !.reached = Append(@, path)]
    IN  IF st.nodes[path].kind = "action" THEN ActionVisit(w, entered, path)
        ELSE SamplingVisit(w, entered, path)

\* ----------------------------------------------------------- state machine
Root == <<>>

NoCalls == [q \in {} |-> 0]
\* (`clean` records that every call made so far returned without raising)
NotCalled ==
    [call |-> "none", err |-> "none", draws |-> <<>>, reached |-> <<>>, clean |-> TRUE]

\* the tree state the next call works on
Cur == Result(nodes, evalCalls, <<>>, <<>>, "none")

\* Tree.visit: line 305 calls self.root.visit() with no argument, while
\* ActionNode.visit takes the model: Python raises TypeError at the call,
\* before the body of visit runs
TreeVisitArgs == <<>>
TreeVisitResults(w, st) ==
    IF Len(TreeVisitArgs) # 1 THEN {[st EXCEPT !.err = "TypeError"]}
    ELSE NodeVisit(w, st, Root)

\* Tree(model, root) over a freshly constructed root decision node
TreeInit ==
    /\ world \in Worlds
    /\ nodes = [q \in {Root} |-> ActionNodeInit(InfoAt(world, Root), DUMMY_INTERVAL_ARRAY)]
    /\ evalCalls = NoCalls
    /\ last = NotCalled

Finish(call, r) ==
    /\ nodes' = r.nodes
    /\ evalCalls' = r.evals
    /\ last' = [call |-> call, err |-> r.err, draws |-> r.draws, reached |-> r.reached,
                clean |-> last.clean /\ r.err = "none"]
    /\ UNCHANGED <<world, phiIn, phiOut>>

\* tree.visit()
TreeVisit ==
    /\ nodes[Root].N < MaxSims
    /\ \E r \in TreeVisitResults(world, Cur) : Finish("Tree.visit", r)

\* tree.root.visit(tree.model), the call Tree.visit is meant to make
RootVisit ==
    /\ nodes[Root].N < MaxSims
    /\ \E r \in NodeVisit(world, Cur, Root) : Finish("ActionNode.visit", r)

PhiIdle == [c |-> 0, eps1 |-> Zero, eps2 |-> Zero, Q |-> <<>>, H |-> <<>>]

Init == TreeInit /\ phiIn = PhiIdle /\ phiOut = None

Next == TreeVisit \/ RootVisit

Spec == Init /\ [][Next]_vars

\* the same tree over an evaluator that returns intervals with lower > upper
InitMalformed ==
    /\ world \in MalformedWorlds
    /\ nodes = [q \in {Root} |-> ActionNodeInit(InfoAt(world, Root), DUMMY_INTERVAL_ARRAY)]
    /\ evalCalls = NoCalls
    /\ last = NotCalled
    /\ phiIn = PhiIdle
    /\ phiOut = None

SpecMalformed == InitMalformed /\ [][Next]_vars

\* ------------------------------------------------ Phi as a pure function
\* Direct calls Phi(c, eps1, Q, H) and Phi(c, eps2, Q, H), eps1 <= eps2, on
\* beliefs of the simplex over MaxHidden hidden values and zero-sum
\* interval tables.
PhiEps == {Zero, PHI_EPS, Half}
PhiMasses == {Zero, <<1, 4>>, Half, <<3, 4>>, One}
PhiIntervals == {<<Zero, Zero>>, <<RInt(-1), One>>, <<Zero, One>>}

PhiBeliefs ==
    {H \in [0 .. (MaxHidden - 1) -> PhiMasses] : RSum(H, DOMAIN H) = One}

PhiTables ==
    {[i \in 0 .. (MaxHidden - 1) |->
        Arr2(Arr2(iv[i][1], iv[i][2]), Arr2(RNeg(iv[i][2]), RNeg(iv[i][1])))] :
     iv \in [0 .. (MaxHidden - 1) -> PhiIntervals]}

PhiInputs ==
    {x \in [c : 0 .. (MaxHidden - 1), eps1 : PhiEps, eps2 : PhiEps,
            Q : PhiTables, H : PhiBeliefs] : RLeq(x.eps1, x.eps2)}

InitPhi ==
    /\ world = CHOOSE w \in Worlds : TRUE
    /\ nodes = [q \in {Root} |-> ActionNodeInit(InfoAt(world, Root), DUMMY_INTERVAL_ARRAY)]
    /\ evalCalls = NoCalls
    /\ last = NotCalled
    /\ phiIn \in PhiInputs
    /\ phiOut = None

PhiCall ==
    /\ phiOut = None
    /\ phiOut' = [lo |-> Phi(phiIn.c, phiIn.eps1, phiIn.Q, phiIn.H),
                  hi |-> Phi(phiIn.c, phiIn.eps2, phiIn.Q, phiIn.H)]
    /\ UNCHANGED <<world, nodes, evalCalls, last, phiIn>>

NextPhi == PhiCall

SpecPhi == InitPhi /\ [][NextPhi]_vars

\* ------------------------------------------------------------------ claims
DecisionNodes == {p \in DOMAIN nodes : nodes[p].kind = "action"}
SamplingNodes == {p \in DOMAIN nodes : nodes[p].kind = "sampling"}
ChildPaths(p) == {Append(p, nodes[p].children[i]) : i \in DOMAIN nodes[p].children}

RECURSIVE SumN(_)
SumN(S) ==
    IF S = {} THEN 0
    ELSE LET q == CHOOSE x \in S : TRUE IN nodes[q].N + SumN(S \ {q})

\* C1: every call of Tree.visit() completes one simulation without error and
\* increases the root's N by exactly 1.
C1_TreeVisitRunsOneSimulation ==
    [][last'.call = "Tree.visit"
        => (last'.err = "none" /\ nodes'[Root].N = nodes[Root].N + 1)]_vars

\* C2: a decision node that has met the mixed case n_mixed times has folded
\* n_mixed restricted priors into MIXED (so MIXED is a distribution) and has
\* recursed into a child each time (its children hold n_pure + n_mixed
\* visits); no visit ends in an UnboundLocalError.
C2_MixedCaseSamplesAndRecurses ==
    /\ last.err # "UnboundLocalError"
    /\ \A p \in DecisionNodes :
        nodes[p].n_mixed > 0 =>
            /\ RSum(nodes[p].MIXED, DOMAIN nodes[p].MIXED) = One
            /\ SumN(ChildPaths(p)) = nodes[p].n_pure + nodes[p].n_mixed

\* C3: every expanded non-terminal decision node has n_pure + n_mixed = N - 1
\* and every terminal decision node has n_pure = n_mixed = 0.
C3_BackupConservation ==
    \A p \in DecisionNodes :
        IF terminal(nodes[p]) THEN nodes[p].n_pure = 0 /\ nodes[p].n_mixed = 0
        ELSE nodes[p].P # None => nodes[p].n_pure + nodes[p].n_mixed = nodes[p].N - 1

\* C4: every node's Q has lower <= upper for each player (the evaluator's
\* values, its seeds and the terminal outcomes all having lower <= upper).
C4_IntervalMonotonicity ==
    \A p \in DOMAIN nodes : \A pl \in Players :
        RLeq(nodes[p].Q[pl][0], nodes[p].Q[pl][1])

\* C4 witness: a decision node whose Q is a proper interval produced by a backup
C4_Witness ==
    \E p \in DecisionNodes :
        /\ nodes[p].n_pure > 0
        /\ RLt(nodes[p].Q[0][0], nodes[p].Q[0][1])

\* C5: a terminal decision node holds its outcome on both bounds of Q,
\* whatever seed its parent passed and however often it was visited, and
\* visits leave P, children, PURE, MIXED, n_pure, n_mixed as constructed,
\* call no evaluator and create no child.
C5_TerminalStability ==
    \A p \in DecisionNodes :
        terminal(nodes[p]) =>
            /\ \A pl \in Players, b \in Bounds :
                    nodes[p].Q[pl][b] = nodes[p].game_outcome.a[pl]
            /\ nodes[p].P = None /\ nodes[p].children = <<>>
            /\ nodes[p].PURE = Zeros(nodes[p].num_actions)
            /\ nodes[p].MIXED = Zeros(nodes[p].num_actions)
            /\ nodes[p].n_pure = 0 /\ nodes[p].n_mixed = 0
            /\ Calls(evalCalls, "action_eval", p) = 0
            /\ Calls(evalCalls, "hidden_eval", p) = 0
            /\ \A q \in DOMAIN nodes : q # <<>> => Parent(q) # p

\* C5 witness: a terminal node visited twice whose parent seeded it with a
\* value other than its outcome
C5_Witness ==
    \E p \in DecisionNodes :
        /\ terminal(nodes[p]) /\ nodes[p].N >= 2
        /\ to_interval_array(nodes[Parent(p)].Vc[LastOf(p)]) # nodes[p].Q

\* C6: the first visit of a non-terminal decision node creates one child per
\* legal action and visits none of them; after its second visit exactly one
\* child has been visited, once.
C6_ExpansionEndsSimulation ==
    \A p \in DecisionNodes :
        ~terminal(nodes[p]) =>
            /\ nodes[p].N = 1 =>
                /\ Len(nodes[p].children) = nodes[p].num_actions
                /\ \A q \in ChildPaths(p) : nodes[q].N = 0
            /\ nodes[p].N = 2 =>
                Cardinality({q \in ChildPaths(p) : nodes[q].N = 1}) = 1

\* the belief mass H leaves on the legal hidden values
MaskedMass(H, H_mask) ==
    RSum([i \in DOMAIN H |-> IF H_mask[i] THEN H[i] ELSE Zero], DOMAIN H)

\* C7: an expanded sampling node's H is non-negative, sums to 1, is 0 at
\* every illegal hidden value, and is uniform over the legal values when the
\* evaluator's belief has masked mass below 1e-6; every hidden value drawn
\* is legal and has a child.
C7_BeliefNormalization ==
    /\ \A p \in SamplingNodes :
        nodes[p].H # None =>
            LET H == nodes[p].H
                mask == nodes[p].H_mask
                belief == hidden_eval(world, nodes[p].info_set).H
                legal == {i \in DOMAIN mask : mask[i]}
            IN  /\ \A i \in DOMAIN H : RLeq(Zero, H[i])
                /\ RSum(H, DOMAIN H) = One
                /\ \A i \in DOMAIN H : ~mask[i] => H[i] = Zero
                /\ RLt(MaskedMass(belief, mask), <<1, 1000000>>) =>
                        \A i \in legal : H[i] = RNorm(1, Cardinality(legal))
    /\ \A k \in DOMAIN last.draws :
        LET d == last.draws[k]
        IN  /\ nodes[d.path].H_mask[d.c]
            /\ Append(d.path, d.c) \in DOMAIN nodes

\* C7 witness: a hidden value was drawn at a sampling node whose belief kept
\* a positive mass below the threshold on two legal values of unequal weight
C7_Witness ==
    \E k \in DOMAIN last.draws :
        LET p == last.draws[k].path
            belief == hidden_eval(world, nodes[p].info_set).H
            mask == nodes[p].H_mask
        IN  /\ RLt(Zero, MaskedMass(belief, mask))
            /\ RLt(MaskedMass(belief, mask), <<1, 1000000>>)
            /\ \E i, j \in DOMAIN mask : mask[i] /\ mask[j] /\ belief[i] # belief[j]

\* C8: action_eval has been called exactly once for every visited
\* non-terminal decision node and never for a terminal or unvisited one;
\* hidden_eval exactly once for every visited sampling node; no other call.
C8_EvaluatedOncePerNode ==
    /\ \A p \in DecisionNodes :
        /\ Calls(evalCalls, "action_eval", p) =
                (IF ~terminal(nodes[p]) /\ nodes[p].N > 0 THEN 1 ELSE 0)
        /\ Calls(evalCalls, "hidden_eval", p) = 0
    /\ \A p \in SamplingNodes :
        /\ Calls(evalCalls, "hidden_eval", p) = (IF nodes[p].N > 0 THEN 1 ELSE 0)
        /\ Calls(evalCalls, "action_eval", p) = 0
    /\ \A key \in DOMAIN evalCalls : key[2] \in DOMAIN nodes

\* C8 witness: a decision node and a sampling node, each visited again after
\* its expansion
C8_Witness ==
    /\ \E p \in DecisionNodes : ~terminal(nodes[p]) /\ nodes[p].N >= 2
    /\ \E p \in SamplingNodes : nodes[p].N >= 2

\* q[c] - sum_i H[i] * q[i], with q[c] at bound b and the other q[i] at the
\* opposite bound
PhiAtH(c, Q, H, p, b) ==
    LET q == [i \in DOMAIN H |-> IF i = c THEN Q[c][p][b] ELSE Q[i][p][1 - b]]
    IN  RSub(q[c], RSum([i \in DOMAIN H |-> RMul(H[i], q[i])], DOMAIN H))

\* C9: Phi(c, 0, Q, H) returns a value, which is per player and bound
\* q[c] - sum_i H[i] * q[i] at the matching endpoints, H unperturbed.
C9_PhiBoundaryCase ==
    (phiOut # None /\ phiIn.eps1 = Zero) =>
        /\ phiOut.lo.err = "none"
        /\ \A p \in Players, b \in Bounds :
                phiOut.lo.val[p][b] = PhiAtH(phiIn.c, phiIn.Q, phiIn.H, p, b)

\* C10: for eps1 <= eps2 both calls of Phi return intervals with
\* lower <= upper, that of eps2 containing that of eps1, for each player.
C10_PhiMonotonicWidening ==
    phiOut # None =>
        /\ phiOut.lo.err = "none" /\ phiOut.hi.err = "none"
        /\ \A p \in Players :
            /\ RLeq(phiOut.hi.val[p][0], phiOut.lo.val[p][0])
            /\ RLeq(phiOut.lo.val[p][1], phiOut.hi.val[p][1])
            /\ RLeq(phiOut.lo.val[p][0], phiOut.lo.val[p][1])
            /\ RLeq(phiOut.hi.val[p][0], phiOut.hi.val[p][1])

\* how often the last simulation called visit on the node at path p
TimesReached(log, p) == Cardinality({k \in DOMAIN log : log[k] = p})

\* C11: a node's N starts at 0 when the node is created, never decreases, and
\* each simulation adds exactly 1 for every visit that reaches the node
\* (terminal, expansion and failing visits included) and nothing to a node
\* it does not reach.
C11_VisitCountMonotonicity ==
    [][/\ DOMAIN nodes \subseteq DOMAIN nodes'
       /\ \A p \in DOMAIN nodes' :
            LET before == IF p \in DOMAIN nodes THEN nodes[p].N ELSE 0
            IN  /\ before >= 0
                /\ nodes'[p].N = before + TimesReached(last'.reached, p)]_vars

\* C11 witness: the last simulation went from the root into a child, and a
\* node visited by an earlier simulation lies off its path
C11_Witness ==
    /\ Len(last.reached) >= 2
    /\ \E q \in DOMAIN nodes : nodes[q].N >= 1 /\ TimesReached(last.reached, q) = 0

\* an interval array with lower > upper for some player
Inverted(x) == x.ndim = 2 /\ \E pl \in Players : RLt(x.a[pl][1], x.a[pl][0])

\* what the evaluator returned for the node at path p
Evaluated(p) ==
    IF nodes[p].kind = "action" THEN action_eval(world, nodes[p].info_set)
    ELSE hidden_eval(world, nodes[p].info_set)

\* C12: no node stores a Q with lower > upper, and a node whose evaluation
\* returned a value or a child seed with lower > upper has not been expanded
\* (its expansion failed: no evaluator output stored, no child created).
C12_MalformedIntervalsRejected ==
    /\ \A p \in DOMAIN nodes : \A pl \in Players :
            RLeq(nodes[p].Q[pl][0], nodes[p].Q[pl][1])
    /\ \A p \in DOMAIN nodes :
        (/\ Calls(evalCalls, "action_eval", p) + Calls(evalCalls, "hidden_eval", p) > 0
         /\ \/ Inverted(Evaluated(p).V)
            \/ \E i \in DOMAIN Evaluated(p).Vc : Inverted(Evaluated(p).Vc[i]))
        => (nodes[p].V = None /\ nodes[p].children = <<>>)

\* the decision nodes a selection visit can run computePUCT on
Selecting == {p \in DecisionNodes : ~terminal(nodes[p]) /\ nodes[p].P # None}

\* the children's Q, N and total N as lines 127-134 read them
ChildQ(p) == [i \in 0 .. (Len(nodes[p].children) - 1) |->
                nodes[Append(p, nodes[p].children[i + 1])].Q]
ChildN(p) == [i \in 0 .. (Len(nodes[p].children) - 1) |->
                nodes[Append(p, nodes[p].children[i + 1])].N]
TotalN(p) == SumN(ChildPaths(p))

\* score[a, b] = Q[a, cp, b] + C * P[a] * sqrt(sum N) / (N[a] + 1)
SpecScore(p, a, b) ==
    [r |-> ChildQ(p)[a][nodes[p].cp][b],
     s |-> RDiv(RMul(c_PUCT, nodes[p].P[a]), RInt(ChildN(p)[a] + 1))]

\* the candidate set of those scores
SpecCandidates(p) ==
    LET A == DOMAIN ChildQ(p)
    IN  {a \in A : \A x \in A : ScoreGeq(SpecScore(p, a, 1), SpecScore(p, x, 0), TotalN(p))}

\* the scores line 136 computes at node p
CodeScores(p) == PUCTScores(ChildQ(p), nodes[p].cp, nodes[p].P, ChildN(p))

\* C13: at every expanded decision node, with any number k >= 1 of actions,
\* computePUCT computes for action a and bound b the score
\* Q[a, cp, b] + C * P[a] * sqrt(sum N) / (N[a] + 1), the bonus on both bounds
\* being that of action a, and returns as candidates exactly the actions
\* whose upper score is >= the maximal lower score.
C13_SelectionScore ==
    \A p \in Selecting :
        /\ CodeScores(p).err = "none"
        /\ \A a \in DOMAIN ChildQ(p), b \in Bounds :
            /\ ScoreGeq(CodeScores(p).val[a][b], SpecScore(p, a, b), TotalN(p))
            /\ ScoreGeq(SpecScore(p, a, b), CodeScores(p).val[a][b], TotalN(p))
        /\ LET sel == computePUCT(nodes, p).selected_action_indices
           IN  {sel[i] : i \in DOMAIN sel} = SpecCandidates(p)

\* the nodes whose visit, in the last simulation, selected a child and
\* descended into it
Descended == {last.reached[k] : k \in 1 .. (Len(last.reached) - 1)}

\* C14: when a selection visit to an expanded decision node has returned,
\* the node's Q is the blend
\* (n_mixed * sum_a Qc[a]*MIXED[a] + n_pure * sum_a Qc[a]*PURE[a]) / (n_mixed + n_pure)
\* of its children's Q as they stand after the recursive child visit of that
\* simulation.
C14_BackupAfterRecursion ==
    last.err = "none" =>
        \A p \in Descended \cap DecisionNodes :
            nodes[p].Q = Backup(ChildQ(p), nodes[p].PURE, nodes[p].MIXED,
                                nodes[p].n_pure, nodes[p].n_mixed)

\* the number of evaluator calls made so far
RECURSIVE EvalTotal(_, _)
EvalTotal(ev, keys) ==
    IF keys = {} THEN 0
    ELSE LET k == CHOOSE x \in keys : TRUE IN ev[k] + EvalTotal(ev, keys \ {k})

\* the paths of the expanded nodes of a tree
ExpandedIn(ns) ==
    {p \in DOMAIN ns : IF ns[p].kind = "action" THEN ns[p].P # None ELSE ns[p].H # None}

\* C15: a simulation stops at the first node it expands: it draws hidden
\* values only at sampling nodes that were expanded before it began (the
\* first visit to a sampling node only expands it), the node it expands is
\* the last one it visits, and it makes at most one evaluator call and
\* expands at most one node.
C15_StopsAtFirstExpansion ==
    [][/\ \A k \in DOMAIN last'.draws : last'.draws[k].path \in ExpandedIn(nodes)
       /\ \A p \in ExpandedIn(nodes') \ ExpandedIn(nodes) :
            p = last'.reached[Len(last'.reached)]
       /\ Cardinality(ExpandedIn(nodes') \ ExpandedIn(nodes)) <= 1
       /\ EvalTotal(evalCalls', DOMAIN evalCalls') <=
            EvalTotal(evalCalls, DOMAIN evalCalls) + 1]_vars

\* the candidate set computePUCT returns at node p
Candidates(p) ==
    LET sel == computePUCT(nodes, p).selected_action_indices
    IN  {sel[i] : i \in DOMAIN sel}

\* C16: whenever computePUCT returns at an expanded decision node (P a
\* distribution over its actions, the children's Q with lower <= upper), the
\* candidate set is non-empty, contains a* = the argmax of the lower score,
\* and has positive total prior mass.
C16_CandidateSetWellFormed ==
    \A p \in Selecting :
        computePUCT(nodes, p).err = "none" =>
            /\ Candidates(p) # {}
            /\ ArgMaxLower(CodeScores(p).val, Len(nodes[p].children), TotalN(p))
                    \in Candidates(p)
            /\ RLt(Zero, RSum(nodes[p].P, Candidates(p)))

\* a running average D over n samples: all-zero while n = 0, a distribution
\* once n > 0
RunningDistribution(D, n) ==
    /\ \A i \in DOMAIN D : RLeq(Zero, D[i])
    /\ n > 0 => RSum(D, DOMAIN D) = One
    /\ n = 0 => \A i \in DOMAIN D : D[i] = Zero

\* C17: in every reachable state of every decision node, a state left by a
\* failed visit included, PURE is non-negative, sums to 1 when n_pure > 0
\* and is all-zero while n_pure = 0, and MIXED likewise with n_mixed.
C17_RunningSelectionDistributions ==
    \A p \in DecisionNodes :
        /\ RunningDistribution(nodes[p].PURE, nodes[p].n_pure)
        /\ RunningDistribution(nodes[p].MIXED, nodes[p].n_mixed)

\* ||H - H'||_1
L1Distance(H, Hp) ==
    RSum([i \in DOMAIN H |->
            LET d == RSub(Hp[i], H[i]) IN IF d[1] < 0 THEN RNeg(d) ELSE d], DOMAIN H)

\* C18: every perturbed belief H' that a call Phi(c, eps, Q, H) builds, for
\* a player and a bound, has all entries in [0, 1], sums to 1 and lies within
\* L1-distance eps of H.
C18_PhiPerturbationFeasible ==
    phiOut # None =>
        \A p \in Players, index \in Bounds :
            LET Hp == PhiHPrime(phiIn.c, phiIn.eps2, phiIn.Q, phiIn.H, p, index)
            IN  /\ \A i \in DOMAIN Hp : RLeq(Zero, Hp[i]) /\ RLeq(Hp[i], One)
                /\ RSum(Hp, DOMAIN Hp) = One
                /\ RLeq(L1Distance(phiIn.H, Hp), phiIn.eps2)

\* C19: every visit to an already-expanded sampling node draws one hidden
\* value, computes Phi and recurses into the child of the drawn value, and
\* changes nothing of the node itself but N: Q, H and Qc stay as expansion
\* set them.
C19_SamplingStatisticsFrozen ==
    [][\A p \in SamplingNodes \cap ExpandedIn(nodes) :
        TimesReached(last'.reached, p) > 0 =>
            /\ nodes'[p] = [nodes[p] EXCEPT !.N = @ + 1]
            /\ \E k \in DOMAIN last'.draws :
                /\ last'.draws[k].path = p
                /\ \A j \in DOMAIN last'.draws : last'.draws[j].path = p => j = k
                /\ TimesReached(last'.reached, Append(p, last'.draws[k].c)) = 1]_vars

\* the nodes constructed under the node at path p
Constructed(p) == {q \in DOMAIN nodes : q # <<>> /\ Parent(q) = p}

\* C20: after any sequence of simulations that all ran to completion, every
\* expanded non-terminal decision node has (sum of its children's N) =
\* N - 1 = n_pure + n_mixed, every sampling node has (sum of its children's
\* N) = N, every unexpanded or terminal node has no children, and the last
\* simulation visited the nodes of one path from the root, each once.
C20_VisitFlowConservation ==
    last.clean =>
        /\ \A p \in DecisionNodes :
            IF terminal(nodes[p]) \/ nodes[p].P = None
            THEN nodes[p].children = <<>> /\ Constructed(p) = {}
            ELSE /\ SumN(ChildPaths(p)) = nodes[p].N - 1
                 /\ nodes[p].N - 1 = nodes[p].n_pure + nodes[p].n_mixed
                 /\ Constructed(p) = ChildPaths(p)
        /\ \A p \in SamplingNodes :
            /\ SumN(ChildPaths(p)) = nodes[p].N
            /\ nodes[p].H = None => (nodes[p].children = <<>> /\ Constructed(p) = {})
        /\ last.call # "none" =>
            /\ Len(last.reached) >= 1 /\ last.reached[1] = Root
            /\ \A k \in 1 .. (Len(last.reached) - 1) :
                    last.reached[k + 1] \in ChildPaths(last.reached[k])

\* C20 witness: after completed simulations only, a decision node with two
\* children has been visited three times and both children have been visited
C20_Witness ==
    /\ last.clean /\ Len(last.reached) >= 2
    /\ \E p \in DecisionNodes :
        /\ Len(nodes[p].children) = 2 /\ nodes[p].N >= 3
        /\ \A q \in ChildPaths(p) : nodes[q].N >= 1

====
